---- MODULE Spec2Model ----
(***************************************************************************)
(* Model of pkg/infra/filestorage/filestorage.go: the multi-backend file   *)
(* storage router (type service).  A path is a Go string, modelled as a    *)
(* sequence of one-character strings, so that strings.TrimPrefix,          *)
(* strings.HasPrefix, strings.Contains, strings.Split and strings.Join are *)
(* computed the way the Go standard library computes them.                 *)
(***************************************************************************)
EXTENDS Integers, Sequences, FiniteSets

VARIABLES
    backendByName,  \* service.backendByName: mount name -> backend
    pc,             \* the caller: "idle", or "returned" once a call came back
    op,             \* the public method called last
    inPath,         \* the path argument of that call (file.Path for Upsert)
    inCursor,       \* the cursor argument of ListFiles
    resolved,       \* what getBackend returned to the method
    calls,          \* the backend methods invoked during the call, in order
    result,         \* what the method returned to its caller
    filePath,       \* UpsertFileCommand.Path once Upsert has returned
    pathWrites      \* the values Upsert assigned to file.Path, in order

vars == <<backendByName, pc, op, inPath, inCursor, resolved, calls, result,
          filePath, pathWrites>>

-----------------------------------------------------------------------------
(* Bounds of the model. *)

MaxPathLen == 5
MaxBackends == 2

-----------------------------------------------------------------------------
(* Strings. *)

Delimiter == <<"/">>

Chars == {"/", "a", "b", "."}

Paths == UNION {[1..n -> Chars] : n \in 0..MaxPathLen}

\* strings.HasPrefix
HasPrefix(s, prefix) ==
    /\ Len(prefix) <= Len(s)
    /\ SubSeq(s, 1, Len(prefix)) = prefix

\* strings.TrimPrefix
TrimPrefix(s, prefix) ==
    IF HasPrefix(s, prefix) THEN SubSeq(s, Len(prefix) + 1, Len(s)) ELSE s

\* strings.Contains(s, Delimiter)
Contains(s, sep) ==
    \E i \in 1..Len(s) : HasPrefix(SubSeq(s, i, Len(s)), sep)

\* strings.Split(s, Delimiter): the substrings between the delimiters; a
\* string without delimiter gives one element, the string itself.
RECURSIVE Split(_, _)
Split(s, sep) ==
    IF ~Contains(s, sep)
    THEN <<s>>
    ELSE LET i == CHOOSE k \in 1..Len(s) :
                      /\ HasPrefix(SubSeq(s, k, Len(s)), sep)
                      /\ \A j \in 1..(k - 1) : ~HasPrefix(SubSeq(s, j, Len(s)), sep)
         IN  <<SubSeq(s, 1, i - 1)>> \o Split(SubSeq(s, i + Len(sep), Len(s)), sep)

\* strings.Join(elems, sep)
RECURSIVE StringsJoin(_, _)
StringsJoin(elems, sep) ==
    IF elems = <<>> THEN <<>>
    ELSE IF Len(elems) = 1 THEN elems[1]
    ELSE elems[1] \o sep \o StringsJoin(Tail(elems), sep)

-----------------------------------------------------------------------------
(* Path utilities of the package that live outside filestorage.go. *)

\* Join(mountName, relativePath): "/<mountName><relativePath>", the relative
\* path keeping one delimiter between the two and none when the mount name
\* is empty; the result always starts with the delimiter.
Join(mountName, relativePath) ==
    IF mountName = <<>>
    THEN Delimiter \o TrimPrefix(relativePath, Delimiter)
    ELSE Delimiter \o mountName \o Delimiter \o TrimPrefix(relativePath, Delimiter)

\* A ".." traversal segment.
HasTraversal(path) ==
    \E i \in 1..Len(Split(path, Delimiter)) : Split(path, Delimiter)[i] = <<".", ".">>

\* The null and control characters.  Chars holds none of them, so the paths
\* of the model are rejected for the other two reasons only.
ControlChars == {"NUL", "LF"}

\* validatePath: InvalidPath for the empty path, for a path with a ".."
\* segment and for a path with a null or control character; the root path
\* and any other absolute path are valid.
validatePath(path) ==
    IF \/ path = <<>>
       \/ HasTraversal(path)
       \/ \E i \in 1..Len(path) : path[i] \in ControlChars
    THEN "InvalidPath"
    ELSE "nil"

-----------------------------------------------------------------------------
(* Backends. *)

Backend(name) == [kind |-> "registered", name |-> name]

\* service.dummyBackend, the one wrapper around dummyFileStorage
dummyBackend == [kind |-> "dummy", name |-> <<>>]

NilBackend == [kind |-> "nil", name |-> <<>>]

\* the backend names the configuration may hold: identifiers without delimiter
MountNames == {<<"a">>, <<"a", "b">>}

\* fsConfig.Backends.FS: each entry has a name and a location that
\* blob.OpenBucket opens or fails to open
Configs ==
    UNION {[1..n -> [Name : MountNames, Opens : BOOLEAN]] : n \in 0..MaxBackends}

\* make(map[string]FileStorage)
EmptyRegistry == [n \in {} |-> NilBackend]

\* The loop of ProvideService over fsConfig.Backends.FS, from entry i on.
RECURSIVE provideLoop(_, _, _)
provideLoop(cfg, i, byName) ==
    IF i > Len(cfg) THEN [err |-> "nil", backendByName |-> byName]
    ELSE IF ~cfg[i].Opens
         THEN [err |-> "OpenBucket", backendByName |-> EmptyRegistry]
    ELSE IF cfg[i].Name \in DOMAIN byName
         THEN [err |-> "Duplicate backend name", backendByName |-> EmptyRegistry]
    ELSE provideLoop(cfg, i + 1,
            [n \in DOMAIN byName \cup {cfg[i].Name} |->
                IF n = cfg[i].Name THEN Backend(n) ELSE byName[n]])

\* ProvideService: an empty registry when the feature toggle is off
ProvideService(enabled, cfg) ==
    IF ~enabled
    THEN [err |-> "nil", backendByName |-> EmptyRegistry]
    ELSE provideLoop(cfg, 1, EmptyRegistry)

\* The orders in which Go may range over a map with these keys.
Orders(keys) ==
    {o \in [1..Cardinality(keys) -> keys] :
        \A i, j \in 1..Cardinality(keys) : i # j => o[i] # o[j]}

-----------------------------------------------------------------------------
(* Resolution. *)

removeBackendNamePrefix(path) ==
    LET trimmed == TrimPrefix(path, Delimiter)
        split == Split(trimmed, Delimiter)
    IN  IF trimmed = Delimiter \/ trimmed = <<>> THEN Delimiter
        ELSE IF ~Contains(trimmed, Delimiter) THEN Delimiter
        ELSE IF Len(split) = 2 /\ split[2] = <<>> THEN Delimiter
        ELSE StringsJoin([split EXCEPT ![1] = <<>>], Delimiter)

\* the condition of the loop of getBackend on one registry entry
matches(backendName, path) ==
    HasPrefix(path, Delimiter \o backendName) \/ backendName = path

\* getBackend with the validation of the backend-specific path left out
RECURSIVE getBackendLoopUnvalidated(_, _, _, _)
getBackendLoopUnvalidated(byName, order, i, path) ==
    IF i > Len(order)
    THEN IF validatePath(path) # "nil"
         THEN [backend |-> NilBackend, path |-> <<>>, name |-> <<>>,
               err |-> validatePath(path)]
         ELSE [backend |-> dummyBackend, path |-> path, name |-> <<>>,
               err |-> "nil"]
    ELSE IF matches(order[i], path)
    THEN [backend |-> byName[order[i]], path |-> removeBackendNamePrefix(path),
          name |-> order[i], err |-> "nil"]
    ELSE getBackendLoopUnvalidated(byName, order, i + 1, path)

\* getBackend handing the dummy backend a path with its first segment removed
RECURSIVE getBackendLoopStripsUnmatched(_, _, _, _)
getBackendLoopStripsUnmatched(byName, order, i, path) ==
    IF i > Len(order)
    THEN IF validatePath(path) # "nil"
         THEN [backend |-> NilBackend, path |-> <<>>, name |-> <<>>,
               err |-> validatePath(path)]
         ELSE [backend |-> dummyBackend, path |-> removeBackendNamePrefix(path),
               name |-> <<>>, err |-> "nil"]
    ELSE IF matches(order[i], path)
    THEN LET backendSpecificPath == removeBackendNamePrefix(path)
         IN  IF validatePath(backendSpecificPath) # "nil"
             THEN [backend |-> NilBackend, path |-> <<>>, name |-> <<>>,
                   err |-> validatePath(backendSpecificPath)]
             ELSE [backend |-> byName[order[i]], path |-> backendSpecificPath,
                   name |-> order[i], err |-> "nil"]
    ELSE getBackendLoopStripsUnmatched(byName, order, i + 1, path)

\* The loop of getBackend over the registry, ranged over in `order`, from
\* entry i on, and the fallback to the dummy backend after it.
RECURSIVE getBackendLoop(_, _, _, _)
getBackendLoop(byName, order, i, path) ==
    IF i > Len(order)
    THEN IF validatePath(path) # "nil"
         THEN [backend |-> NilBackend, path |-> <<>>, name |-> <<>>,
               err |-> validatePath(path)]
         ELSE [backend |-> dummyBackend, path |-> path, name |-> <<>>,
               err |-> "nil"]
    ELSE IF matches(order[i], path)
    THEN LET backendSpecificPath == removeBackendNamePrefix(path)
         IN  IF validatePath(backendSpecificPath) # "nil"
             THEN [backend |-> NilBackend, path |-> <<>>, name |-> <<>>,
                   err |-> validatePath(backendSpecificPath)]
             ELSE [backend |-> byName[order[i]], path |-> backendSpecificPath,
                   name |-> order[i], err |-> "nil"]
    ELSE getBackendLoop(byName, order, i + 1, path)

getBackend(byName, order, path) == getBackendLoop(byName, order, 1, path)

-----------------------------------------------------------------------------
(* What a backend may answer.  The backends are external: a call returns    *)
(* any of these.                                                            *)

\* paths of the backend's own namespace, as a backend puts them in FullPath
BackendPaths == {<<"/", "b">>, <<"/", "a", "/", "b">>}

BackendErrs == {"nil", "NotFound"}

Cursors == {"c1", "c2"}

\* a response: the error; whether the returned entity (the *File, the
\* *ListFilesResponse, the folder slice) is nil; whether resp.Files is nil;
\* the FullPath of every returned entry; the paging data of the response
Response(err, isNil, filesNil, paths, cursor) ==
    [err |-> err, isNil |-> isNil, filesNil |-> filesNil, paths |-> paths,
     cursor |-> cursor]

NoResponse(err) == Response(err, TRUE, TRUE, <<>>, "none")

ErrResponses == {NoResponse(e) : e \in BackendErrs}

\* a file, or no file; an error may come with either
GetResponses ==
    ErrResponses
    \cup {Response("nil", FALSE, TRUE, <<p>>, "none") : p \in BackendPaths}
    \cup {Response("NotFound", FALSE, TRUE, <<<<"/", "b">>>>, "none")}

\* the lists of entries a backend returns: none, one, two in either order
EntryLists ==
    {<<>>, <<<<"/", "b">>>>} \cup {l \in [1..2 -> BackendPaths] : l[1] # l[2]}

\* no response; a response without Files; a response with Files
ListFilesResponses ==
    ErrResponses
    \cup {Response("nil", FALSE, TRUE, <<>>, "c1")}
    \cup {Response("nil", FALSE, FALSE, l, c) : l \in EntryLists, c \in Cursors}
    \cup {Response("NotFound", FALSE, FALSE, <<<<"/", "b">>>>, "c2")}

\* no slice; a slice of folders
ListFoldersResponses ==
    ErrResponses
    \cup {Response("nil", FALSE, FALSE, l, "none") : l \in EntryLists}
    \cup {Response("NotFound", FALSE, FALSE, <<<<"/", "b">>>>, "none")}

\* one invocation of a backend method, as a spy on the backend records it
Call(backend, method, path, cursor, ret) ==
    [backend |-> backend, method |-> method, path |-> path, cursor |-> cursor,
     ret |-> ret]

\* FullPath = Join(backendName, FullPath) on every entry
RewriteAll(backendName, paths) ==
    [i \in 1..Len(paths) |-> Join(backendName, paths[i])]

-----------------------------------------------------------------------------
(* The public methods of service.  Each takes the registry, the order in    *)
(* which the map is ranged over, the arguments, and the answer `resp` the   *)
(* backend gives if it is called; each yields what getBackend returned, the *)
(* backend calls made and the values returned to the caller.                *)

Get(byName, order, path, resp) ==
    LET r == getBackend(byName, order, path)
    IN  IF r.err # "nil"
        THEN [resolved |-> r, calls |-> <<>>, result |-> NoResponse(r.err)]
        ELSE [resolved |-> r,
              calls |-> <<Call(r.backend, "Get", r.path, "none", resp)>>,
              result |->
                  IF ~resp.isNil
                  THEN [resp EXCEPT !.paths = RewriteAll(r.name, resp.paths)]
                  ELSE resp]

\* Delete calling the backend a second time when the first call fails
DeleteRetries(byName, order, path, resp) ==
    LET r == getBackend(byName, order, path)
        call == Call(r.backend, "Delete", r.path, "none", resp)
    IN  IF r.err # "nil"
        THEN [resolved |-> r, calls |-> <<>>, result |-> NoResponse(r.err)]
        ELSE [resolved |-> r,
              calls |-> IF resp.err # "nil" THEN <<call, call>> ELSE <<call>>,
              result |-> NoResponse(resp.err)]

Delete(byName, order, path, resp) ==
    LET r == getBackend(byName, order, path)
    IN  IF r.err # "nil"
        THEN [resolved |-> r, calls |-> <<>>, result |-> NoResponse(r.err)]
        ELSE [resolved |-> r,
              calls |-> <<Call(r.backend, "Delete", r.path, "none", resp)>>,
              result |-> NoResponse(resp.err)]

\* Upsert without the assignment to file.Path
UpsertKeepsPath(byName, order, path, resp) ==
    LET r == getBackend(byName, order, path)
    IN  IF r.err # "nil"
        THEN [resolved |-> r, calls |-> <<>>, result |-> NoResponse(r.err),
              filePath |-> path, pathWrites |-> <<>>]
        ELSE [resolved |-> r,
              calls |-> <<Call(r.backend, "Upsert", path, "none", resp)>>,
              result |-> NoResponse(resp.err),
              filePath |-> path, pathWrites |-> <<>>]

Upsert(byName, order, path, resp) ==
    LET r == getBackend(byName, order, path)
    IN  IF r.err # "nil"
        THEN [resolved |-> r, calls |-> <<>>, result |-> NoResponse(r.err),
              filePath |-> path, pathWrites |-> <<>>]
        ELSE LET assigned == r.path  \* file.Path = backendSpecificPath
             IN  [resolved |-> r,
                  calls |-> <<Call(r.backend, "Upsert", assigned, "none", resp)>>,
                  result |-> NoResponse(resp.err),
                  filePath |-> assigned, pathWrites |-> <<assigned>>]

\* ListFiles rewriting the first entry only
ListFilesRewritesFirst(byName, order, path, cursor, resp) ==
    LET r == getBackend(byName, order, path)
    IN  IF r.err # "nil"
        THEN [resolved |-> r, calls |-> <<>>, result |-> NoResponse(r.err)]
        ELSE [resolved |-> r,
              calls |-> <<Call(r.backend, "ListFiles", r.path, cursor, resp)>>,
              result |->
                  IF ~resp.isNil /\ ~resp.filesNil /\ resp.paths # <<>>
                  THEN [resp EXCEPT !.paths[1] = Join(r.name, resp.paths[1])]
                  ELSE resp]

ListFiles(byName, order, path, cursor, resp) ==
    LET r == getBackend(byName, order, path)
    IN  IF r.err # "nil"
        THEN [resolved |-> r, calls |-> <<>>, result |-> NoResponse(r.err)]
        ELSE [resolved |-> r,
              calls |-> <<Call(r.backend, "ListFiles", r.path, cursor, resp)>>,
              result |->
                  IF ~resp.isNil /\ ~resp.filesNil
                  THEN [resp EXCEPT !.paths = RewriteAll(r.name, resp.paths)]
                  ELSE resp]

ListFolders(byName, order, path, resp) ==
    LET r == getBackend(byName, order, path)
    IN  IF r.err # "nil"
        THEN [resolved |-> r, calls |-> <<>>, result |-> NoResponse(r.err)]
        ELSE [resolved |-> r,
              calls |-> <<Call(r.backend, "ListFolders", r.path, "none", resp)>>,
              result |->
                  IF ~resp.isNil
                  THEN [resp EXCEPT !.paths = RewriteAll(r.name, resp.paths)]
                  ELSE resp]

CreateFolder(byName, order, path, resp) ==
    LET r == getBackend(byName, order, path)
    IN  IF r.err # "nil"
        THEN [resolved |-> r, calls |-> <<>>, result |-> NoResponse(r.err)]
        ELSE [resolved |-> r,
              calls |-> <<Call(r.backend, "CreateFolder", r.path, "none", resp)>>,
              result |-> NoResponse(resp.err)]

DeleteFolder(byName, order, path, resp) ==
    LET r == getBackend(byName, order, path)
    IN  IF r.err # "nil"
        THEN [resolved |-> r, calls |-> <<>>, result |-> NoResponse(r.err)]
        ELSE [resolved |-> r,
              calls |-> <<Call(r.backend, "DeleteFolder", r.path, "none", resp)>>,
              result |-> NoResponse(resp.err)]

\* the error backend `name` returns from close(): its own, or nil
CloseErr(name, failing) ==
    IF name \in failing THEN <<"close failed", name>> ELSE "nil"

\* close returning at the first error
RECURSIVE closeLoopStopsAtError(_, _, _, _, _, _)
closeLoopStopsAtError(byName, order, i, failing, lastError, made) ==
    IF i > Len(order) \/ lastError # "nil"
    THEN [calls |-> made, err |-> lastError]
    ELSE closeLoopStopsAtError(byName, order, i + 1, failing,
                   CloseErr(order[i], failing),
                   Append(made, Call(byName[order[i]], "close", <<>>, "none",
                                     NoResponse(CloseErr(order[i], failing)))))

\* The loop of close over the registry, ranged over in `order`, from entry i
\* on; `failing` are the backends whose close() returns an error.
RECURSIVE closeLoop(_, _, _, _, _, _)
closeLoop(byName, order, i, failing, lastError, made) ==
    IF i > Len(order)
    THEN [calls |-> made, err |-> lastError]
    ELSE closeLoop(byName, order, i + 1, failing,
                   CloseErr(order[i], failing),
                   Append(made, Call(byName[order[i]], "close", <<>>, "none",
                                     NoResponse(CloseErr(order[i], failing)))))

close(byName, order, failing) == closeLoop(byName, order, 1, failing, "nil", <<>>)

-----------------------------------------------------------------------------
(* The state machine: a caller of the service makes one call after another. *)

NoResolution == [backend |-> NilBackend, path |-> <<>>, name |-> <<>>, err |-> "nil"]

Init ==
    /\ \E enabled \in BOOLEAN, cfg \in Configs :
          /\ ProvideService(enabled, cfg).err = "nil"
          /\ backendByName = ProvideService(enabled, cfg).backendByName
    /\ pc = "idle"
    /\ op = "none"
    /\ inPath = <<>>
    /\ inCursor = "none"
    /\ resolved = NoResolution
    /\ calls = <<>>
    /\ result = NoResponse("nil")
    /\ filePath = <<>>
    /\ pathWrites = <<>>

\* the caller's view once the method `name` called with `path` has returned t
Returned(name, path, cursor, t) ==
    /\ pc' = "returned"
    /\ op' = name
    /\ inPath' = path
    /\ inCursor' = cursor
    /\ resolved' = t.resolved
    /\ calls' = t.calls
    /\ result' = t.result
    /\ UNCHANGED backendByName

CallGet ==
    /\ pc = "idle"
    /\ \E path \in Paths, order \in Orders(DOMAIN backendByName), resp \in GetResponses :
          Returned("Get", path, "none", Get(backendByName, order, path, resp))
    /\ UNCHANGED <<filePath, pathWrites>>

CallDelete ==
    /\ pc = "idle"
    /\ \E path \in Paths, order \in Orders(DOMAIN backendByName), resp \in ErrResponses :
          Returned("Delete", path, "none", Delete(backendByName, order, path, resp))
    /\ UNCHANGED <<filePath, pathWrites>>

CallUpsert ==
    /\ pc = "idle"
    /\ \E path \in Paths, order \in Orders(DOMAIN backendByName), resp \in ErrResponses :
          LET t == Upsert(backendByName, order, path, resp)
          IN  /\ Returned("Upsert", path, "none", t)
              /\ filePath' = t.filePath
              /\ pathWrites' = t.pathWrites

CallListFiles ==
    /\ pc = "idle"
    /\ \E path \in Paths, order \in Orders(DOMAIN backendByName),
          cursor \in Cursors, resp \in ListFilesResponses :
          Returned("ListFiles", path, cursor,
                   ListFiles(backendByName, order, path, cursor, resp))
    /\ UNCHANGED <<filePath, pathWrites>>

CallListFolders ==
    /\ pc = "idle"
    /\ \E path \in Paths, order \in Orders(DOMAIN backendByName),
          resp \in ListFoldersResponses :
          Returned("ListFolders", path, "none",
                   ListFolders(backendByName, order, path, resp))
    /\ UNCHANGED <<filePath, pathWrites>>

CallCreateFolder ==
    /\ pc = "idle"
    /\ \E path \in Paths, order \in Orders(DOMAIN backendByName), resp \in ErrResponses :
          Returned("CreateFolder", path, "none",
                   CreateFolder(backendByName, order, path, resp))
    /\ UNCHANGED <<filePath, pathWrites>>

CallDeleteFolder ==
    /\ pc = "idle"
    /\ \E path \in Paths, order \in Orders(DOMAIN backendByName), resp \in ErrResponses :
          Returned("DeleteFolder", path, "none",
                   DeleteFolder(backendByName, order, path, resp))
    /\ UNCHANGED <<filePath, pathWrites>>

CallClose ==
    /\ pc = "idle"
    /\ \E order \in Orders(DOMAIN backendByName), failing \in SUBSET DOMAIN backendByName :
          LET t == close(backendByName, order, failing)
          IN  /\ pc' = "returned"
              /\ op' = "close"
              /\ calls' = t.calls
              /\ result' = NoResponse(t.err)
    /\ UNCHANGED <<backendByName, inPath, inCursor, resolved, filePath, pathWrites>>

\* the caller takes the result and is ready for its next call; the spies on
\* the backends start a new record
NextCall ==
    /\ pc = "returned"
    /\ pc' = "idle"
    /\ op' = "none"
    /\ inPath' = <<>>
    /\ inCursor' = "none"
    /\ resolved' = NoResolution
    /\ calls' = <<>>
    /\ result' = NoResponse("nil")
    /\ filePath' = <<>>
    /\ pathWrites' = <<>>
    /\ UNCHANGED backendByName

Next ==
    \/ CallGet
    \/ CallDelete
    \/ CallUpsert
    \/ CallListFiles
    \/ CallListFolders
    \/ CallCreateFolder
    \/ CallDeleteFolder
    \/ CallClose
    \/ NextCall

Spec == Init /\ [][Next]_vars

-----------------------------------------------------------------------------
(* Properties. *)

PublicOps ==
    {"Get", "Delete", "Upsert", "ListFiles", "ListFolders", "CreateFolder",
     "DeleteFolder"}

\* a public method has returned to its caller
PublicReturned == pc = "returned" /\ op \in PublicOps

\* the calls made so far to the method `method` of backend b
CallsTo(b, method) ==
    {i \in 1..Len(calls) : calls[i].backend = b /\ calls[i].method = method}

\* the error of the last of the calls that returned one, nil if none did
RECURSIVE LastNonNilErr(_)
LastNonNilErr(cs) ==
    IF cs = <<>> THEN "nil"
    ELSE IF cs[Len(cs)].ret.err # "nil" THEN cs[Len(cs)].ret.err
    ELSE LastNonNilErr(SubSeq(cs, 1, Len(cs) - 1))

\* C1: when the close of at least one registered backend fails, close()
\* returns the last non-nil error a backend's close returned, and never nil,
\* whatever the order in which the registry is ranged over.
C1_CloseReturnsLastFailure ==
    (pc = "returned" /\ op = "close"
        /\ \E i \in 1..Len(calls) : calls[i].ret.err # "nil")
    => (result.err # "nil" /\ result.err = LastNonNilErr(calls))

\* C2: close() calls the close of every registered backend exactly once,
\* whether or not an earlier close returned an error, and calls nothing else.
C2_CloseReachesEveryBackend ==
    (pc = "returned" /\ op = "close")
    => /\ \A n \in DOMAIN backendByName :
             Cardinality(CallsTo(backendByName[n], "close")) = 1
       /\ Len(calls) = Cardinality(DOMAIN backendByName)

\* C2 witness: the first backend closed returned an error and the second one
\* was closed all the same.
C2_Witness ==
    /\ pc = "returned" /\ op = "close"
    /\ Len(calls) = 2
    /\ calls[1].ret.err # "nil"
    /\ calls[2].ret.err = "nil"

\* C3: a public method called with a path that has a ".." segment fails with
\* InvalidPath and invokes no method of any backend, whether or not a mount
\* name matched the path.
C3_TraversalRejectedBeforeBackend ==
    (PublicReturned /\ HasTraversal(inPath))
    => (result.err = "InvalidPath" /\ calls = <<>>)

\* C3 witness: /a/.. under the registered mount a was rejected.
C3_Witness ==
    /\ PublicReturned
    /\ <<"a">> \in DOMAIN backendByName
    /\ inPath = <<"/", "a", "/", ".", ".">>
    /\ result.err = "InvalidPath"
    /\ calls = <<>>

\* C4: resolution is deterministic: what getBackend returned for the path is
\* what it returns under every order in which the registry is ranged over.
C4_ResolutionDeterministic ==
    PublicReturned
    => \A order \in Orders(DOMAIN backendByName) :
          getBackend(backendByName, order, inPath) = resolved

\* C5: round trip: for a valid path resolved to a registered mount m whose
\* backend-local path is not the root, Join(m, removeBackendNamePrefix(p)) = p.
C5_RoundTrip ==
    (PublicReturned
        /\ validatePath(inPath) = "nil"
        /\ resolved.err = "nil"
        /\ resolved.backend.kind = "registered"
        /\ resolved.path # Delimiter)
    => Join(resolved.name, removeBackendNamePrefix(inPath)) = inPath

\* C6: when no registered mount name matches a valid path, resolution does
\* not fail: it returns the dummy backend, the mount name "" and the path
\* unchanged, and no registered backend is invoked.
C6_UnmatchedGoesToDummy ==
    (PublicReturned
        /\ validatePath(inPath) = "nil"
        /\ \A n \in DOMAIN backendByName :
              ~(HasPrefix(inPath, Delimiter \o n) \/ n = inPath))
    => /\ resolved = [backend |-> dummyBackend, path |-> inPath, name |-> <<>>,
                      err |-> "nil"]
       /\ result.err # "InvalidPath"
       /\ \A i \in 1..Len(calls) : calls[i].backend = dummyBackend

\* C6 witness: with the empty registry of the disabled feature, /b/a went to
\* the dummy backend unchanged.
C6_Witness ==
    /\ PublicReturned
    /\ DOMAIN backendByName = {}
    /\ inPath = <<"/", "b", "/", "a">>
    /\ Len(calls) = 1
    /\ calls[1].backend = dummyBackend
    /\ calls[1].path = inPath

\* the backend returned entries to rewrite
EntriesReturned(ret) ==
    IF op = "ListFiles" THEN ~ret.isNil /\ ~ret.filesNil ELSE ~ret.isNil

\* C7: ListFiles and ListFolders return as many entries as the backend did,
\* in its order, each FullPath being Join(m, the backend's FullPath); the
\* cursor reaches the backend as given and the paging data of the response
\* comes back as the backend set it.
C7_ListRewritesEveryEntry ==
    (pc = "returned" /\ op \in {"ListFiles", "ListFolders"} /\ resolved.err = "nil")
    => /\ Len(calls) = 1
       /\ calls[1].cursor = inCursor
       /\ result.cursor = calls[1].ret.cursor
       /\ result.isNil = calls[1].ret.isNil
       /\ Len(result.paths) = Len(calls[1].ret.paths)
       /\ EntriesReturned(calls[1].ret) =>
             \A i \in 1..Len(result.paths) :
                result.paths[i] = Join(resolved.name, calls[1].ret.paths[i])

\* C7 witness: mount a returned /b then /a/b, the caller got /a/b then /a/a/b.
C7_Witness ==
    /\ pc = "returned" /\ op = "ListFiles"
    /\ resolved.name = <<"a">>
    /\ inCursor = "c1"
    /\ calls[1].ret.paths = << <<"/", "b">>, <<"/", "a", "/", "b">> >>
    /\ calls[1].ret.cursor = "c2"
    /\ result.paths = << <<"/", "a", "/", "b">>, <<"/", "a", "/", "a", "/", "b">> >>
    /\ result.cursor = "c2"

\* C8: Upsert assigns the resolved backend-local path to the command's Path
\* exactly once and the backend's Upsert receives the command with that
\* value; when resolution fails the Path is unchanged and no backend is called.
C8_UpsertRewritesPathOnce ==
    (pc = "returned" /\ op = "Upsert")
    => IF resolved.err = "nil"
       THEN /\ pathWrites = <<resolved.path>>
            /\ filePath = resolved.path
            /\ Len(calls) = 1
            /\ calls[1].method = "Upsert"
            /\ calls[1].path = resolved.path
       ELSE /\ pathWrites = <<>>
            /\ filePath = inPath
            /\ calls = <<>>

\* C8 witness: Upsert of /a/b under mount a handed /b to the backend.
C8_Witness ==
    /\ pc = "returned" /\ op = "Upsert"
    /\ inPath = <<"/", "a", "/", "b">>
    /\ resolved.name = <<"a">>
    /\ filePath = <<"/", "b">>
    /\ calls[1].path = <<"/", "b">>

\* C9: for every registered mount name m, /m and /m/ resolve to backend m with
\* the root delimiter as backend-local path; removeBackendNamePrefix never
\* returns the empty string and its result begins with the delimiter.
C9_BareMountIsRootOfItsBackend ==
    PublicReturned
    => /\ \A m \in DOMAIN backendByName :
             inPath \in {Delimiter \o m, Delimiter \o m \o Delimiter}
             => /\ resolved.err = "nil"
                /\ resolved.backend = backendByName[m]
                /\ resolved.path = Delimiter
       /\ removeBackendNamePrefix(inPath) # <<>>
       /\ HasPrefix(removeBackendNamePrefix(inPath), Delimiter)

\* C10: when resolution succeeds a public method makes exactly one backend
\* call, to the method of its own name on the resolved backend, and returns
\* the error of that call as it is.
C10_OneCallErrorUnchanged ==
    (PublicReturned /\ resolved.err = "nil")
    => /\ Len(calls) = 1
       /\ calls[1].method = op
       /\ calls[1].backend = resolved.backend
       /\ calls[1].path = resolved.path
       /\ result.err = calls[1].ret.err

\* C10 witness: Delete on a registered backend failed with NotFound, once.
C10_Witness ==
    /\ pc = "returned" /\ op = "Delete"
    /\ resolved.backend.kind = "registered"
    /\ Len(calls) = 1
    /\ calls[1].ret.err = "NotFound"
    /\ result.err = "NotFound"

====
